---- MODULE Spec2Model ----
(***************************************************************************)
(* convex-sql: the constraint enforcer and the mutation wrappers that bind *)
(* it to the store's insert / patch / replace / delete primitives.         *)
(*                                                                         *)
(* The repository carries three wrapper variants:                          *)
(*   "runtime"   src/src/runtime/constraints.ts  (ConstraintEnforcer and   *)
(*               createInsert/Update/DeleteWithConstraints; update=patch)  *)
(*   "generated" src/src/generator/codegen.ts:159-284 and :457-576         *)
(*               (wrapDb that throws; update = replace)                    *)
(*   "result"    src/src/generator/codegen.ts:712-942                      *)
(*               (wrapDb that returns {data, error}; targetField support)  *)
(* A behaviour fixes one variant and one schema at Init and then runs      *)
(* wrapped calls one at a time, each to completion.                        *)
(*                                                                         *)
(* Two further parts share the module: wrapped inserts of concurrent       *)
(* callers, one store operation per step (variable pending), and the Table *)
(* builder of src/src/core/Table.ts and src/unnamed/part_011 (variable     *)
(* tbl), and the SchemaWatcher of src/unnamed/part_006 (variable sw).       *)
(***************************************************************************)
EXTENDS Integers, Sequences, FiniteSets, TLC

VARIABLES variant, schema, db, nextId, last, pending, tbl, sw

vars == <<variant, schema, db, nextId, last, pending, tbl, sw>>

(***************************************************************************)
(* Bounds                                                                  *)
(***************************************************************************)
\* number of document ids the store ever hands out
MaxRows == 3

\* length of the constraint list a constraints() call returns
MaxConstraints == 2

\* number of constraints() calls made on one table
MaxBuilds == 2

\* number of start() calls made on one SchemaWatcher
MaxStarts == 2

\* number of file-system events the chokidar watchers deliver
MaxEvents == 3

(***************************************************************************)
(* Values.  A document id is a string of IdSeq; "undef" is JavaScript's    *)
(* undefined (an absent field), "null" is null, "ghost" is a well-formed   *)
(* id of the expected table that names no document.                        *)
(***************************************************************************)
IdSeq == <<"i1", "i2", "i3", "i4", "i5", "i6">>

Ids == {IdSeq[n] : n \in 1..MaxRows}

NameVals == {"a", "b"}

Variants == {"runtime", "generated", "result"}

NoRow == [table |-> "none", name |-> "undef", ref |-> "undef"]

\* JavaScript truthiness of a field value: !value
Falsy(v) == v \in {"undef", "null"}

(***************************************************************************)
(* Constraint metadata (src/src/core/types.ts)                             *)
(***************************************************************************)
Unique(f) ==
  [type |-> "unique", field |-> f, targetTable |-> "none",
   targetField |-> "undef", onDelete |-> "undef", value |-> "undef"]

Relation(f, tt, tf, od) ==
  [type |-> "relation", field |-> f, targetTable |-> tt,
   targetField |-> tf, onDelete |-> od, value |-> "undef"]

NotNull(f) ==
  [type |-> "notNull", field |-> f, targetTable |-> "none",
   targetField |-> "undef", onDelete |-> "undef", value |-> "undef"]

Default(f, val) ==
  [type |-> "default", field |-> f, targetTable |-> "none",
   targetField |-> "undef", onDelete |-> "undef", value |-> val]

\* c.relation(field, target, {onDelete, onUpdate})
RelationOnUpdate(f, tt, od, ou) ==
  [type |-> "relation", field |-> f, targetTable |-> tt,
   targetField |-> "undef", onDelete |-> od, value |-> "undef",
   onUpdate |-> ou]

\* c.index(fields, name): an explicit index over an ordered field list
Index(fields, name) ==
  [type |-> "index", field |-> "undef", targetTable |-> "none",
   targetField |-> "undef", onDelete |-> "undef", value |-> "undef",
   fields |-> fields, name |-> name]

\* the schemas explored:
\*   "cascade"   users <- posts <- comments, both relations cascade, both
\*               reference fields required (v.id(...), as in the example
\*               schema of the repository)
\*   "restrict", "setNull"   users <- posts with that delete action
\*   "oneToOne"  users <- posts, setNull, the reference field unique as well
\*   "byField"   posts.ref references users through targetField name
\*   "selfRef"   comments.ref references comments (parentId of the example
\*               schema), cascade
\*   "mixed"     users <- posts (cascade), users <- comments (restrict),
\*               users <- likes (cascade), declared in that order
\*   "unset", "setDefault"   users <- posts with onDelete left out / set
\*               to setDefault
\*   "byFieldCascade"   as "byField", cascade
\*   "relFirst"  posts declares its relation before a unique on name
\*   "withDefault"   users declares default(name, "a") before unique(name)
\*   "notNull"   as "setNull", posts declares notNull(ref) as well
\*   "cycle"     comments.ref references likes and likes.ref references
\*               comments, both cascade
\*   "onUpdateA", "onUpdateB"   users <- posts and users <- comments, both
\*               restrict on delete, with onUpdate cascade and restrict (A),
\*               setNull and setDefault (B)
\*   "twoRefs"   posts references users through two fields: name (setNull)
\*               and ref (cascade)
SchemaNames ==
  {"cascade", "restrict", "setNull", "oneToOne", "byField", "selfRef",
   "mixed", "unset", "setDefault", "byFieldCascade", "relFirst", "withDefault",
   "notNull", "cycle", "twoRefs", "onUpdateA", "onUpdateB"}

\* the tables of schema s in the order Object.entries(TABLE_CONSTRAINTS)
\* yields them
Tables(s) ==
  IF s \in {"cascade", "onUpdateA", "onUpdateB"}
  THEN <<"users", "posts", "comments">>
  ELSE IF s = "mixed" THEN <<"users", "posts", "comments", "likes">>
  ELSE IF s = "selfRef" THEN <<"comments">>
  ELSE IF s = "cycle" THEN <<"comments", "likes">>
  ELSE <<"users", "posts">>

TableSet(s) == {Tables(s)[k] : k \in 1..Len(Tables(s))}

\* whether the reference fields of schema s are declared v.optional(...);
\* the store rejects a document that lacks a required field
RefOptional(s) ==
  s \notin {"cascade", "mixed", "relFirst", "twoRefs", "onUpdateA", "onUpdateB"}

\* constraints of posts under schema s, in declaration order
PostsConstraints(s) ==
  CASE s = "restrict" -> <<Relation("ref", "users", "undef", "restrict")>>
    [] s = "setNull"  -> <<Relation("ref", "users", "undef", "setNull")>>
    [] s = "oneToOne" -> <<Unique("ref"),
                           Relation("ref", "users", "undef", "setNull")>>
    [] s = "byField"  -> <<Relation("ref", "users", "name", "restrict")>>
    [] s = "byFieldCascade" -> <<Relation("ref", "users", "name", "cascade")>>
    [] s = "unset"    -> <<Relation("ref", "users", "undef", "undef")>>
    [] s = "setDefault" -> <<Relation("ref", "users", "undef", "setDefault")>>
    [] s = "relFirst" -> <<Relation("ref", "users", "undef", "restrict"),
                           Unique("name")>>
    [] s = "notNull"  -> <<NotNull("ref"),
                           Relation("ref", "users", "undef", "setNull")>>
    [] s = "onUpdateA" ->
         <<RelationOnUpdate("ref", "users", "restrict", "cascade")>>
    [] s = "onUpdateB" ->
         <<RelationOnUpdate("ref", "users", "restrict", "setNull")>>
    [] s = "twoRefs"  -> <<Relation("name", "users", "undef", "setNull"),
                           Relation("ref", "users", "undef", "cascade")>>
    [] OTHER          -> <<Relation("ref", "users", "undef", "cascade")>>

\* constraints of comments under schema s
CommentsConstraints(s) ==
  IF s = "selfRef"
  THEN <<Relation("ref", "comments", "undef", "cascade")>>
  ELSE IF s = "mixed"
  THEN <<Relation("ref", "users", "undef", "restrict")>>
  ELSE IF s = "cycle"
  THEN <<Relation("ref", "likes", "undef", "cascade")>>
  ELSE IF s = "onUpdateA"
  THEN <<RelationOnUpdate("ref", "users", "restrict", "restrict")>>
  ELSE IF s = "onUpdateB"
  THEN <<RelationOnUpdate("ref", "users", "restrict", "setDefault")>>
  ELSE <<Relation("ref", "posts", "undef", "cascade")>>

\* constraints of users under schema s
UsersConstraints(s) ==
  IF s = "withDefault" THEN <<Default("name", "a"), Unique("name")>>
  ELSE <<Unique("name")>>

\* TABLE_CONSTRAINTS[t] / the constraints array the runtime wrappers are
\* created with
ConstraintsOf(s, t) ==
  IF t = "users" THEN UsersConstraints(s)
  ELSE IF t = "posts" THEN PostsConstraints(s)
  ELSE IF t = "comments" THEN CommentsConstraints(s)
  ELSE IF t = "likes"
  THEN IF s = "cycle" THEN <<Relation("ref", "comments", "undef", "cascade")>>
       ELSE <<Relation("ref", "users", "undef", "cascade")>>
  ELSE <<>>

\* targetField exists only in the RelationConstraint of the latest types
\* (types.ts:260-267), which is the one the "result" wrapper is generated from
SchemaFits(v, s) == s \in {"byField", "byFieldCascade"} => v = "result"

(***************************************************************************)
(* The document store (external): get, indexed equality query, and the     *)
(* native writes.                                                          *)
(***************************************************************************)
\* ctx.db.get(id): the document with that id, whatever its table
Get(d, id) == IF id \in DOMAIN d THEN d[id] ELSE NoRow

Exists(d, id) == Get(d, id) # NoRow

RECURSIVE QueryFrom(_, _, _, _, _)
QueryFrom(n, d, t, f, v) ==
  IF n > MaxRows THEN <<>>
  ELSE IF d[IdSeq[n]].table = t /\ d[IdSeq[n]][f] = v
       THEN <<IdSeq[n]>> \o QueryFrom(n + 1, d, t, f, v)
       ELSE QueryFrom(n + 1, d, t, f, v)

\* ctx.db.query(t).withIndex(idx, q => q.eq(f, v)).collect(): the ids of the
\* matching documents in creation order; .first() is its head
Query(d, t, f, v) == QueryFrom(1, d, t, f, v)

Range(s) == {s[k] : k \in 1..Len(s)}

\* db.delete(id) for each id of ids
DeleteRows(d, ids) == [i \in DOMAIN d |-> IF i \in Range(ids) THEN NoRow ELSE d[i]]

\* PatchRows replacing the document by {[f]: v} instead of merging
PatchRowsReplacing(d, ids, f, v) ==
  [i \in DOMAIN d |->
     IF i \in Range(ids)
     THEN [[table |-> d[i].table, name |-> "undef", ref |-> "undef"] EXCEPT ![f] = v]
     ELSE d[i]]

\* db.patch(id, {[f]: v}) for each id of ids
PatchRows(d, ids, f, v) ==
  [i \in DOMAIN d |-> IF i \in Range(ids) THEN [d[i] EXCEPT ![f] = v] ELSE d[i]]

\* db.patch(id, patch): the keys present in the patch overwrite the document's
PatchDoc(row, patch) ==
  [table |-> row.table,
   name |-> IF patch.name = "undef" THEN row.name ELSE patch.name,
   ref |-> IF patch.ref = "undef" THEN row.ref ELSE patch.ref]

\* db.replace(id, value): the document becomes value
ReplaceDoc(row, value) ==
  [table |-> row.table, name |-> value.name, ref |-> value.ref]

\* the store writes a call issued, in order
LogOf(op, ids) == [k \in 1..Len(ids) |-> [op |-> op, id |-> ids[k]]]

\* a store read a call issued: ctx.db.get (field "_id") or an index query on
\* table t by field f, on behalf of the constraint on field for
Lookup(op, t, f, for) == [op |-> op, table |-> t, field |-> f, for |-> for]

(***************************************************************************)
(* Failures                                                                *)
(***************************************************************************)
NoErr == [kind |-> "none", table |-> "none", field |-> "none",
          value |-> "undef", count |-> 0]

\* `Unique constraint violation: ${field} '${value}' already exists in ${table}`
UniqueViolation(t, f, v) ==
  [kind |-> "unique", table |-> t, field |-> f, value |-> v, count |-> 0]

\* `Foreign key constraint violation: ${targetTable} with id '${value}' does not exist`
ForeignKeyViolation(tt, v) ==
  [kind |-> "foreignKey", table |-> tt, field |-> "none", value |-> v, count |-> 0]

\* `Cannot delete: ${n} related ${sourceTable} record(s) exist`
CannotDelete(src, n) ==
  [kind |-> "cannotDelete", table |-> src, field |-> "none",
   value |-> "undef", count |-> n]

\* `Not null constraint violation: ${field} cannot be null or undefined`
NotNullViolation(f) ==
  [kind |-> "notNull", table |-> "none", field |-> f, value |-> "undef",
   count |-> 0]

\* "setDefault action not yet implemented"
NotImplemented ==
  [kind |-> "notImplemented", table |-> "none", field |-> "none",
   value |-> "undef", count |-> 0]

\* the store rejects a get whose argument is not an id, and a delete of a
\* document that no longer exists
StoreError(k) ==
  [kind |-> k, table |-> "none", field |-> "none", value |-> "undef", count |-> 0]

\* FirstErr that runs every check and keeps the failure of the last one
LastErr(es) ==
  IF \E k \in 1..Len(es) : es[k] # NoErr
  THEN es[CHOOSE k \in 1..Len(es) :
            es[k] # NoErr /\ \A j \in (k + 1)..Len(es) : es[j] = NoErr]
  ELSE NoErr

\* the first failure of a sequence of checks run in order
FirstErr(es) ==
  IF \E k \in 1..Len(es) : es[k] # NoErr
  THEN es[CHOOSE k \in 1..Len(es) :
            es[k] # NoErr /\ \A j \in 1..(k - 1) : es[j] = NoErr]
  ELSE NoErr

(***************************************************************************)
(* Validation of an insert or update                                       *)
(***************************************************************************)
\* ValidateUniqueConstraint tolerating one holder of the value
ValidateUniqueTolerant(d, t, c, data, excludeId) ==
  LET value == data[c.field]
      existing == Query(d, t, c.field, value)
  IN IF value = "undef" THEN NoErr
     ELSE IF Len(existing) > 1
             /\ (excludeId = "undef" \/ Head(existing) # excludeId)
          THEN UniqueViolation(t, c.field, value)
          ELSE NoErr

\* validateUniqueConstraint (runtime) and the loop body of
\* validateUniqueConstraints (generated, result)
ValidateUniqueConstraint(d, t, c, data, excludeId) ==
  LET value == data[c.field]
      existing == Query(d, t, c.field, value)
  IN IF value = "undef" THEN NoErr
     ELSE IF Len(existing) > 0
             /\ (excludeId = "undef" \/ Head(existing) # excludeId)
          THEN UniqueViolation(t, c.field, value)
          ELSE NoErr

\* validateRelationConstraint (runtime) and the loop body of
\* validateRelationConstraints (generated)
ValidateRelationConstraint(d, c, data) ==
  LET value == data[c.field]
  IN IF Falsy(value) THEN NoErr
     ELSE IF ~Exists(d, value) THEN ForeignKeyViolation(c.targetTable, value)
     ELSE NoErr

\* what ctx.db.get does with an argument that is not an id string: it
\* returns null or it throws, as the store decides
GetOnNonId == {"absent", "throws"}

\* the outcomes that can differ in variant v: only the result wrapper passes
\* an absent or null value to ctx.db.get
GetOutcomes(v) == IF v = "result" THEN GetOnNonId ELSE {"absent"}

\* ValidateRelationResult resolving every reference by id, targetField or not
ValidateRelationById(d, c, data, g) ==
  LET value == data[c.field]
  IN IF Falsy(value) /\ g = "throws" THEN StoreError("invalidArgument")
     ELSE IF ~Exists(d, value) THEN ForeignKeyViolation(c.targetTable, value)
     ELSE NoErr

\* the loop body of validateRelationConstraints (result)
ValidateRelationResult(d, c, data, g) ==
  LET value == data[c.field]
  IN IF c.targetField = "undef"
     THEN IF Falsy(value) /\ g = "throws" THEN StoreError("invalidArgument")
          ELSE IF ~Exists(d, value)
               THEN ForeignKeyViolation(c.targetTable, value)
               ELSE NoErr
     ELSE IF Len(Query(d, c.targetTable, c.targetField, value)) = 0
          THEN ForeignKeyViolation(c.targetTable, value)
          ELSE NoErr

\* ConstraintEnforcer.validateNotNullConstraint
ValidateNotNullConstraint(c, data) ==
  IF data[c.field] \in {"null", "undef"} THEN NotNullViolation(c.field)
  ELSE NoErr

\* ConstraintEnforcer.validateConstraint
ValidateConstraint(d, t, c, data, excludeId) ==
  IF c.type = "unique" THEN ValidateUniqueConstraint(d, t, c, data, excludeId)
  ELSE IF c.type = "relation" THEN ValidateRelationConstraint(d, c, data)
  ELSE IF c.type = "notNull" THEN ValidateNotNullConstraint(c, data)
  ELSE NoErr

\* Object.keys(patch)
Keys(patch) == {f \in {"name", "ref"} : patch[f] # "undef"}

\* ConstraintAffectsFields that never selects a unique constraint
AffectsFieldsNoUnique(c, fields) ==
  c.type \in {"notNull", "default", "relation"} /\ c.field \in fields

\* ConstraintEnforcer.constraintAffectsFields
ConstraintAffectsFields(c, fields) ==
  c.type \in {"unique", "notNull", "default", "relation"} /\ c.field \in fields

\* ConstraintEnforcer.validateInsert
ValidateInsert(s, d, t, data) ==
  LET cs == ConstraintsOf(s, t)
  IN FirstErr([k \in 1..Len(cs) |->
                 ValidateConstraint(d, t, cs[k], data, "undef")])

\* ConstraintEnforcer.validateUpdate
ValidateUpdate(s, d, t, id, patch) ==
  LET cs == ConstraintsOf(s, t)
  IN FirstErr([k \in 1..Len(cs) |->
                 IF ConstraintAffectsFields(cs[k], Keys(patch))
                 THEN ValidateConstraint(d, t, cs[k], patch, id)
                 ELSE NoErr])

\* validateUniqueConstraints (generated, result): TABLE_CONSTRAINTS[t].unique
ValidateUniqueConstraints(s, d, t, data, excludeId) ==
  LET cs == ConstraintsOf(s, t)
  IN FirstErr([k \in 1..Len(cs) |->
                 IF cs[k].type = "unique"
                 THEN ValidateUniqueConstraint(d, t, cs[k], data, excludeId)
                 ELSE NoErr])

\* validateRelationConstraints (generated, result):
\* TABLE_CONSTRAINTS[t].relations
ValidateRelationConstraints(v, s, d, t, data, g) ==
  LET cs == ConstraintsOf(s, t)
  IN FirstErr([k \in 1..Len(cs) |->
                 IF cs[k].type = "relation"
                 THEN IF v = "result"
                      THEN ValidateRelationResult(d, cs[k], data, g)
                      ELSE ValidateRelationConstraint(d, cs[k], data)
                 ELSE NoErr])

\* the validation a wrapped insert (excludeId = "undef") or a wrapped
\* update/replace of excludeId runs before its write
Validate(v, s, d, t, data, excludeId, g) ==
  IF v = "runtime"
  THEN IF excludeId = "undef" THEN ValidateInsert(s, d, t, data)
       ELSE ValidateUpdate(s, d, t, excludeId, data)
  ELSE FirstErr(<<ValidateUniqueConstraints(s, d, t, data, excludeId),
                  ValidateRelationConstraints(v, s, d, t, data, g)>>)

\* the constraints a validation evaluates, in the order it evaluates them:
\* the constraints array (runtime; on update those that affect the patch),
\* or TABLE_CONSTRAINTS[t].unique and then .relations (generated, result)
CheckOrder(v, s, t, data, excludeId) ==
  LET cs == ConstraintsOf(s, t)
  IN IF v = "runtime"
     THEN IF excludeId = "undef" THEN cs
          ELSE SelectSeq(cs, LAMBDA c : ConstraintAffectsFields(c, Keys(data)))
     ELSE SelectSeq(cs, LAMBDA c : c.type = "unique")
          \o SelectSeq(cs, LAMBDA c : c.type = "relation")

\* the outcome of the check of constraint c in variant v
CheckErr(v, d, t, c, data, excludeId, g) ==
  IF v = "runtime" THEN ValidateConstraint(d, t, c, data, excludeId)
  ELSE IF c.type = "unique"
  THEN ValidateUniqueConstraint(d, t, c, data, excludeId)
  ELSE IF v = "result" THEN ValidateRelationResult(d, c, data, g)
  ELSE ValidateRelationConstraint(d, c, data)

\* the store reads the check of constraint c issues
CheckReads(v, t, c, data) ==
  IF c.type = "unique"
  THEN IF data[c.field] = "undef" THEN <<>>
       ELSE <<Lookup("query", t, c.field, c.field)>>
  ELSE IF c.type = "relation"
  THEN IF v = "result"
       THEN IF c.targetField = "undef"
            THEN <<Lookup("get", c.targetTable, "_id", c.field)>>
            ELSE <<Lookup("query", c.targetTable, c.targetField, c.field)>>
       ELSE IF Falsy(data[c.field]) THEN <<>>
            ELSE <<Lookup("get", c.targetTable, "_id", c.field)>>
  ELSE <<>>

\* the reads of the checks cs[k..], which end with the first check that throws
RECURSIVE ReadsFrom(_, _, _, _, _, _, _, _)
ReadsFrom(k, cs, v, d, t, data, excludeId, g) ==
  IF k > Len(cs) THEN <<>>
  ELSE CheckReads(v, t, cs[k], data)
       \o (IF CheckErr(v, d, t, cs[k], data, excludeId, g) # NoErr THEN <<>>
           ELSE ReadsFrom(k + 1, cs, v, d, t, data, excludeId, g))

\* the store reads a validation issues
ValidationReads(v, s, d, t, data, excludeId, g) ==
  ReadsFrom(1, CheckOrder(v, s, t, data, excludeId), v, d, t, data, excludeId, g)

(***************************************************************************)
(* Delete handling                                                         *)
(***************************************************************************)
\* the relation constraints of table t, each with its source table
RelationsOf(s, t) ==
  LET rs == SelectSeq(ConstraintsOf(s, t), LAMBDA c : c.type = "relation")
  IN [k \in 1..Len(rs) |-> [src |-> t, rel |-> rs[k]]]

RECURSIVE RelationsFrom(_, _)
RelationsFrom(k, s) ==
  IF k > Len(Tables(s)) THEN <<>>
  ELSE RelationsOf(s, Tables(s)[k]) \o RelationsFrom(k + 1, s)

\* the order in which handleDelete / handleDeleteConstraints meet the
\* relations: Object.entries of the constraint map, then declaration order
AllRelations(s) ==
  RelationsFrom(1, s)

\* DeleteActionThrowing whose restrict case falls through without throwing
DeleteActionNoRestrict(v, st, src, rel, related) ==
  IF rel.onDelete = "cascade"
  THEN [st EXCEPT !.db = DeleteRows(st.db, related),
                  !.log = st.log \o LogOf("delete", related)]
  ELSE IF rel.onDelete = "setNull"
  THEN [st EXCEPT !.db = PatchRows(st.db, related, rel.field, "null"),
                  !.log = st.log \o LogOf("patch", related)]
  ELSE st

\* DeleteActionThrowing that clears the reference where onDelete is neither
\* cascade nor restrict
DeleteActionClearing(v, st, src, rel, related) ==
  IF rel.onDelete = "cascade"
  THEN [st EXCEPT !.db = DeleteRows(st.db, related),
                  !.log = st.log \o LogOf("delete", related)]
  ELSE IF rel.onDelete = "restrict"
  THEN [st EXCEPT !.err = CannotDelete(src, Len(related))]
  ELSE [st EXCEPT !.db = PatchRows(st.db, related, rel.field, "null"),
                  !.log = st.log \o LogOf("patch", related)]

\* the switch on onDelete of handleRelationDelete (runtime) and of
\* handleDeleteConstraints (generated); st is the call so far
DeleteActionThrowing(v, st, src, rel, related) ==
  IF rel.onDelete = "cascade"
  THEN [st EXCEPT !.db = DeleteRows(st.db, related),
                  !.log = st.log \o LogOf("delete", related)]
  ELSE IF rel.onDelete = "setNull"
  THEN [st EXCEPT !.db = PatchRows(st.db, related, rel.field, "null"),
                  !.log = st.log \o LogOf("patch", related)]
  ELSE IF rel.onDelete = "setDefault" /\ v = "runtime"
  THEN [st EXCEPT !.err = NotImplemented]
  ELSE [st EXCEPT !.err = CannotDelete(src, Len(related))]

\* the switch on onDelete of handleDeleteConstraints (result)
DeleteActionResult(st, src, rel, related) ==
  IF rel.onDelete = "cascade"
  THEN [st EXCEPT !.db = DeleteRows(st.db, related),
                  !.log = st.log \o LogOf("delete", related),
                  !.err = CannotDelete(src, Len(related))]
  ELSE IF rel.onDelete = "setNull"
  THEN [st EXCEPT !.db = PatchRows(st.db, related, rel.field, "undef"),
                  !.log = st.log \o LogOf("patch", related)]
  ELSE [st EXCEPT !.err = CannotDelete(src, Len(related))]

\* HandleRelationDelete that queries the referencing rows a second time
\* after it has acted on them
HandleRelationDeleteTwice(v, st, src, rel, targetTable, targetId) ==
  LET relatedRecords == Query(st.db, src, rel.field, targetId)
      asked == [st EXCEPT !.reads =
                  @ \o <<Lookup("query", src, rel.field, rel.field),
                         Lookup("query", src, rel.field, rel.field)>>]
  IN IF rel.targetTable # targetTable THEN st
     ELSE IF Len(relatedRecords) = 0 THEN asked
     ELSE DeleteActionThrowing(v, asked, src, rel, relatedRecords)

\* handleRelationDelete (runtime) and one turn of the relation loop of
\* handleDeleteConstraints (generated)
HandleRelationDelete(v, st, src, rel, targetTable, targetId) ==
  LET relatedRecords == Query(st.db, src, rel.field, targetId)
      asked == [st EXCEPT !.reads =
                  @ \o <<Lookup("query", src, rel.field, rel.field)>>]
  IN IF rel.targetTable # targetTable THEN st
     ELSE IF Len(relatedRecords) = 0 THEN asked
     ELSE DeleteActionThrowing(v, asked, src, rel, relatedRecords)

\* one turn of the relation loop of handleDeleteConstraints (result)
HandleRelationResult(st, src, rel, targetTable, targetId) ==
  LET target == Get(st.db, targetId)
      relatedRecords ==
        IF rel.targetField # "undef"
        THEN Query(st.db, src, rel.field, target[rel.targetField])
        ELSE IF rel.targetTable = targetTable
        THEN Query(st.db, src, rel.field, targetId)
        ELSE <<>>
      got == Lookup("get", targetTable, "_id", rel.field)
      queried == Lookup("query", src, rel.field, rel.field)
      asked == [st EXCEPT !.reads =
                  @ \o (IF rel.targetField # "undef"
                        THEN IF target = NoRow THEN <<got>>
                             ELSE <<got, queried>>
                        ELSE IF rel.targetTable = targetTable
                        THEN <<queried>>
                        ELSE <<>>)]
  IN IF rel.targetField # "undef" /\ target = NoRow
     THEN [asked EXCEPT !.err = StoreError("itemDoesNotExist")]
     ELSE IF Len(relatedRecords) = 0 THEN asked
     ELSE DeleteActionResult(asked, src, rel, relatedRecords)

\* HandleDeleteFrom that walks on after a relation has thrown
RECURSIVE HandleDeleteFromAll(_, _, _, _, _, _)
HandleDeleteFromAll(k, rels, v, st, targetTable, targetId) ==
  IF k > Len(rels) THEN st
  ELSE HandleDeleteFromAll(k + 1, rels, v,
         IF v = "result"
         THEN HandleRelationResult(st, rels[k].src, rels[k].rel,
                                   targetTable, targetId)
         ELSE HandleRelationDelete(v, st, rels[k].src, rels[k].rel,
                                   targetTable, targetId),
         targetTable, targetId)

\* handleDelete (runtime) / handleDeleteConstraints (generated, result) from
\* the k-th relation on; a failure ends the walk
RECURSIVE HandleDeleteFrom(_, _, _, _, _, _)
HandleDeleteFrom(k, rels, v, st, targetTable, targetId) ==
  IF k > Len(rels) \/ st.err # NoErr THEN st
  ELSE HandleDeleteFrom(k + 1, rels, v,
         IF v = "result"
         THEN HandleRelationResult(st, rels[k].src, rels[k].rel,
                                   targetTable, targetId)
         ELSE HandleRelationDelete(v, st, rels[k].src, rels[k].rel,
                                   targetTable, targetId),
         targetTable, targetId)

HandleDelete(v, s, d, targetTable, targetId) ==
  HandleDeleteFrom(1, AllRelations(s), v,
                   [db |-> d, err |-> NoErr, log |-> <<>>, reads |-> <<>>],
                   targetTable, targetId)

(***************************************************************************)
(* The wrapped operations: the call's final store, failure and writes      *)
(***************************************************************************)
\* createInsertWithConstraints / wrapDb.insert
WrappedInsert(v, s, d, t, data, g, newId) ==
  LET e == Validate(v, s, d, t, data, "undef", g)
      rs == ValidationReads(v, s, d, t, data, "undef", g)
  IN IF e # NoErr THEN [db |-> d, err |-> e, log |-> <<>>, reads |-> rs]
     ELSE [db |-> [d EXCEPT ![newId] =
                     [table |-> t, name |-> data.name, ref |-> data.ref]],
           err |-> NoErr,
           log |-> <<[op |-> "insert", id |-> newId]>>,
           reads |-> rs]

\* WrappedUpdate that writes before it looks at the outcome of validation
WrappedUpdateWriteFirst(v, s, d, t, id, data, g) ==
  LET e == Validate(v, s, d, t, data, id, g)
      rs == ValidationReads(v, s, d, t, data, id, g)
  IN IF v = "runtime"
     THEN [db |-> [d EXCEPT ![id] = PatchDoc(d[id], data)],
           err |-> e, log |-> <<[op |-> "patch", id |-> id]>>, reads |-> rs]
     ELSE [db |-> [d EXCEPT ![id] = ReplaceDoc(d[id], data)],
           err |-> e, log |-> <<[op |-> "replace", id |-> id]>>, reads |-> rs]

\* WrappedUpdate that refuses to update a row which another row references
\* through a relation whose onUpdate is restrict
WrappedUpdateRestricting(v, s, d, t, id, data, g) ==
  LET e == Validate(v, s, d, t, data, id, g)
      rs == ValidationReads(v, s, d, t, data, id, g)
      held == \E k \in 1..Len(AllRelations(s)) : \E i \in DOMAIN d :
                /\ AllRelations(s)[k].rel.targetTable = t
                /\ AllRelations(s)[k].rel.onUpdate = "restrict"
                /\ d[i].table = AllRelations(s)[k].src
                /\ d[i][AllRelations(s)[k].rel.field] = id
  IN IF e # NoErr THEN [db |-> d, err |-> e, log |-> <<>>, reads |-> rs]
     ELSE IF held
     THEN [db |-> d, err |-> StoreError("cannotUpdate"), log |-> <<>>,
           reads |-> rs]
     ELSE IF v = "runtime"
     THEN [db |-> [d EXCEPT ![id] = PatchDoc(d[id], data)],
           err |-> NoErr, log |-> <<[op |-> "patch", id |-> id]>>,
           reads |-> rs]
     ELSE [db |-> [d EXCEPT ![id] = ReplaceDoc(d[id], data)],
           err |-> NoErr, log |-> <<[op |-> "replace", id |-> id]>>,
           reads |-> rs]

\* createUpdateWithConstraints (db.patch) / wrapDb.replace (db.replace)
WrappedUpdate(v, s, d, t, id, data, g) ==
  LET e == Validate(v, s, d, t, data, id, g)
      rs == ValidationReads(v, s, d, t, data, id, g)
  IN IF e # NoErr THEN [db |-> d, err |-> e, log |-> <<>>, reads |-> rs]
     ELSE IF v = "runtime"
     THEN [db |-> [d EXCEPT ![id] = PatchDoc(d[id], data)],
           err |-> NoErr, log |-> <<[op |-> "patch", id |-> id]>>,
           reads |-> rs]
     ELSE [db |-> [d EXCEPT ![id] = ReplaceDoc(d[id], data)],
           err |-> NoErr, log |-> <<[op |-> "replace", id |-> id]>>,
           reads |-> rs]

\* createDeleteWithConstraints / wrapDb.delete; the store's delete throws
\* when the document is gone
WrappedDelete(v, s, d, t, id) ==
  LET h == HandleDelete(v, s, d, t, id)
      issued == h.log \o <<[op |-> "delete", id |-> id]>>
  IN IF h.err # NoErr THEN h
     ELSE IF ~Exists(h.db, id)
     THEN [db |-> h.db, err |-> StoreError("nonexistent"), log |-> issued,
           reads |-> h.reads]
     ELSE [db |-> DeleteRows(h.db, <<id>>), err |-> NoErr, log |-> issued,
           reads |-> h.reads]

\* what the caller of the wrapped call c gets back.  The result wrapper's
\* try/catch returns {data: id, error: null} or {data: null, error: message};
\* the other wrappers return normally or let the failure propagate.
ResultObject(v, c) ==
  IF v = "result"
  THEN [thrown |-> FALSE,
        data |-> IF c.err = NoErr THEN c.id ELSE "null",
        error |-> IF c.err = NoErr THEN "null" ELSE c.err.kind]
  ELSE [thrown |-> c.err # NoErr,
        data |-> IF c.err = NoErr /\ c.op = "insert" THEN c.id ELSE "undef",
        error |-> "undef"]

(***************************************************************************)
(* Inputs                                                                  *)
(***************************************************************************)
\* values a caller passes for the plain field name of table t
NameInputs(t) ==
  IF t = "users" THEN NameVals
  ELSE IF t = "posts" THEN {"a"}
  ELSE {"undef"}

\* values a caller passes for the reference field of table t: nothing, null,
\* an id of the relation's target table (of a document, or of none), or a
\* value of the target field
RefInputsOf(s, d, rel) ==
  (IF RefOptional(s) THEN {"undef", "null"} ELSE {})
  \cup (IF rel.targetField = "undef"
        THEN {"ghost"} \cup {i \in Ids : d[i].table = rel.targetTable}
        ELSE NameVals)

RefInputs(s, d, t) ==
  LET rs == RelationsOf(s, t)
  IN IF Len(rs) = 0 THEN {"undef"}
     ELSE UNION {RefInputsOf(s, d, rs[k].rel) : k \in 1..Len(rs)}

\* a caller may leave out a field that carries a default constraint
Defaulted(s, t, f) ==
  \E k \in 1..Len(ConstraintsOf(s, t)) :
    ConstraintsOf(s, t)[k].type = "default" /\ ConstraintsOf(s, t)[k].field = f

\* values a caller passes for the field name: a reference where the schema
\* declares a relation on it
NameInputsOf(s, d, t) ==
  IF s = "twoRefs" /\ t = "posts"
  THEN {"null"} \cup {i \in Ids : d[i].table = "users"}
  ELSE NameInputs(t)

DataInputs(s, d, t) ==
  [name : NameInputsOf(s, d, t)
          \cup (IF Defaulted(s, t, "name") THEN {"undef"} ELSE {}),
   ref : RefInputs(s, d, t)]

\* a patch may leave either key out
PatchInputs(s, d, t) ==
  [name : NameInputsOf(s, d, t) \cup {"undef"},
   ref : RefInputs(s, d, t) \cup {"undef"}]

NoCall == [op |-> "none", table |-> "none", id |-> "undef", data |-> NoRow,
           err |-> NoErr, log |-> <<>>, reads |-> <<>>]

Call(op, t, id, data, r) ==
  [op |-> op, table |-> t, id |-> id,
   data |-> [table |-> t, name |-> data.name, ref |-> data.ref],
   err |-> r.err, log |-> r.log, reads |-> r.reads]

(***************************************************************************)
(* Actions: one wrapped call, run to completion                            *)
(***************************************************************************)
Insert(t, data, g) ==
  /\ nextId <= MaxRows
  /\ LET r == WrappedInsert(variant, schema, db, t, data, g, IdSeq[nextId])
     IN /\ db' = r.db
        /\ nextId' = IF r.err = NoErr THEN nextId + 1 ELSE nextId
        /\ last' = Call("insert", t,
                        IF r.err = NoErr THEN IdSeq[nextId] ELSE "undef",
                        data, r)
  /\ UNCHANGED <<variant, schema, pending, tbl, sw>>

Update(id, data, g) ==
  /\ Exists(db, id)
  /\ LET r == WrappedUpdate(variant, schema, db, db[id].table, id, data, g)
     IN /\ db' = r.db
        /\ last' = Call("update", db[id].table, id, data, r)
  /\ UNCHANGED <<variant, schema, nextId, pending, tbl, sw>>

Delete(id) ==
  /\ Exists(db, id)
  /\ LET r == WrappedDelete(variant, schema, db, db[id].table, id)
     IN /\ db' = r.db
        /\ last' = Call("delete", db[id].table, id, NoRow, r)
  /\ UNCHANGED <<variant, schema, nextId, pending, tbl, sw>>

\* the callers that may have a wrapped insert in flight
Procs == {"p1", "p2"}

\* a caller with no call in flight
Idle == [pc |-> "idle", table |-> "none", data |-> NoRow, k |-> 0,
         reads |-> <<>>]

NoPending == [p \in Procs |-> Idle]

\* no failure of a constraints() call
NoBuildError ==
  [kind |-> "none", field |-> "none", table |-> "none", available |-> {}]

\* no table under construction
NoTable == [builder |-> "none", name |-> "none", input |-> <<>>,
            constraints |-> <<>>, indexes |-> <<>>, error |-> NoBuildError,
            calls |-> 0]

\* new SchemaWatcher(options): no chokidar watcher, no debounce timer.
\* open is the set of chokidar watchers that have not been closed, armed
\* the set of timers the event loop holds
NewWatcher ==
  [watcher |-> 0, open |-> {}, debounceTimer |-> 0, armed |-> {},
   created |-> 0, timers |-> 0, events |-> 0, generations |-> 0,
   running |-> FALSE, op |-> "new", emitted |-> "none"]

InitWith(vs, ss) ==
  /\ variant \in vs
  /\ schema \in ss
  /\ SchemaFits(variant, schema)
  /\ db = [i \in Ids |-> NoRow]
  /\ nextId = 1
  /\ last = NoCall
  /\ pending = NoPending
  /\ tbl = NoTable
  /\ sw = NewWatcher

Init == InitWith(Variants, SchemaNames)

Next ==
  \/ \E t \in TableSet(schema) : \E data \in DataInputs(schema, db, t) :
        \E g \in GetOutcomes(variant) : Insert(t, data, g)
  \/ \E id \in Ids :
        \E data \in (IF variant = "runtime"
                      THEN PatchInputs(schema, db, db[id].table)
                      ELSE DataInputs(schema, db, db[id].table)) :
          \E g \in GetOutcomes(variant) : Update(id, data, g)
  \/ \E id \in Ids : Delete(id)

Spec == Init /\ [][Next]_vars

\* the same program under one family of schemas
SpecCascade == InitWith(Variants, {"cascade"}) /\ [][Next]_vars

SpecThrowing == InitWith({"runtime", "generated"}, {"cascade"}) /\ [][Next]_vars

SpecRestrict == InitWith(Variants, {"restrict", "byField"}) /\ [][Next]_vars

SpecSetNull == InitWith(Variants, {"setNull"}) /\ [][Next]_vars

SpecUnique == InitWith(Variants, {"oneToOne"}) /\ [][Next]_vars

SpecWrites == InitWith(Variants, {"oneToOne", "selfRef"}) /\ [][Next]_vars

SpecResultObject ==
  InitWith({"result"}, {"restrict", "byFieldCascade"}) /\ [][Next]_vars

SpecMixed == InitWith(Variants, {"mixed"}) /\ [][Next]_vars

SpecDefaultAction == InitWith(Variants, {"unset", "setDefault"}) /\ [][Next]_vars

SpecPatch == InitWith(Variants, {"oneToOne", "notNull"}) /\ [][Next]_vars

SpecTargetField ==
  InitWith(Variants, {"restrict", "byField", "byFieldCascade"}) /\ [][Next]_vars

\* the runtime wrappers under the self-referencing schema, the cyclic schema
\* and the schema with two relations to one target
SpecCycles ==
  InitWith({"runtime"}, {"selfRef", "cycle", "twoRefs"}) /\ [][Next]_vars

SpecOnUpdate == InitWith(Variants, {"onUpdateA", "onUpdateB"}) /\ [][Next]_vars

SpecNotNull == InitWith(Variants, {"notNull"}) /\ [][Next]_vars

SpecDefault == InitWith(Variants, {"withDefault"}) /\ [][Next]_vars

SpecRelFirst == InitWith(Variants, {"relFirst", "oneToOne"}) /\ [][Next]_vars

(***************************************************************************)
(* Concurrent callers: a wrapped insert of each caller advances by one     *)
(* store operation per step (createInsertWithConstraints awaits each of    *)
(* them), and the steps of the callers interleave.                         *)
(***************************************************************************)
\* NativeInsert that validates once more against the store it writes to
NativeInsertRechecked(v, s, d, t, data, newId) ==
  LET e == Validate(v, s, d, t, data, "undef", "absent")
  IN IF e # NoErr THEN [db |-> d, err |-> e, log |-> <<>>]
     ELSE [db |-> [d EXCEPT ![newId] =
                     [table |-> t, name |-> data.name, ref |-> data.ref]],
           err |-> NoErr, log |-> <<[op |-> "insert", id |-> newId]>>]

\* return await ctx.db.insert(tableName, data)
NativeInsert(v, s, d, t, data, newId) ==
  [db |-> [d EXCEPT ![newId] =
             [table |-> t, name |-> data.name, ref |-> data.ref]],
   err |-> NoErr, log |-> <<[op |-> "insert", id |-> newId]>>]

\* caller p invokes the wrapped insert: the enforcer is created and the
\* validation is about to evaluate its first constraint
Begin(p, t, data) ==
  /\ pending[p].pc = "idle"
  /\ nextId <= MaxRows
  /\ pending' = [pending EXCEPT ![p] =
       [pc |-> IF Len(CheckOrder(variant, schema, t, data, "undef")) = 0
               THEN "writing" ELSE "checking",
        table |-> t,
        data |-> [table |-> t, name |-> data.name, ref |-> data.ref],
        k |-> 1, reads |-> <<>>]]
  /\ UNCHANGED <<variant, schema, db, nextId, last, tbl, sw>>

\* caller p's validation evaluates its next constraint against the store as
\* it is now; a violation ends the call
Check(p, g) ==
  LET c == pending[p]
      order == CheckOrder(variant, schema, c.table, c.data, "undef")
      e == CheckErr(variant, db, c.table, order[c.k], c.data, "undef", g)
      rs == c.reads \o CheckReads(variant, c.table, order[c.k], c.data)
  IN /\ c.pc = "checking"
     /\ IF e # NoErr
        THEN /\ pending' = [pending EXCEPT ![p] = Idle]
             /\ last' = Call("insert", c.table, "undef", c.data,
                             [err |-> e, log |-> <<>>, reads |-> rs])
        ELSE /\ pending' = [pending EXCEPT ![p] =
                  [c EXCEPT !.k = c.k + 1, !.reads = rs,
                            !.pc = IF c.k = Len(order) THEN "writing"
                                   ELSE "checking"]]
             /\ last' = last
     /\ UNCHANGED <<variant, schema, db, nextId, tbl, sw>>

\* caller p's validation has returned: the native insert
Write(p) ==
  LET c == pending[p]
      r == NativeInsert(variant, schema, db, c.table, c.data, IdSeq[nextId])
  IN /\ c.pc = "writing"
     /\ nextId <= MaxRows
     /\ db' = r.db
     /\ nextId' = IF r.err = NoErr THEN nextId + 1 ELSE nextId
     /\ pending' = [pending EXCEPT ![p] = Idle]
     /\ last' = Call("insert", c.table,
                     IF r.err = NoErr THEN IdSeq[nextId] ELSE "undef", c.data,
                     [err |-> r.err, log |-> r.log, reads |-> c.reads])
     /\ UNCHANGED <<variant, schema, tbl, sw>>

NextRace ==
  \/ \E p \in Procs : \E t \in TableSet(schema) :
        \E data \in DataInputs(schema, db, t) : Begin(p, t, data)
  \/ \E p \in Procs : \E g \in GetOutcomes(variant) : Check(p, g)
  \/ \E p \in Procs : Write(p)

SpecRace == InitWith(Variants, {"restrict"}) /\ [][NextRace]_vars

(***************************************************************************)
(* The Table builder.  Three versions are in the repository:               *)
(*   "defineTable"  Table.ts:84-348, TableDefinitionWithConstraints over   *)
(*                  the store's defineTable                                *)
(*   "builder"      Table.ts:411-620, TableWithConstraintsBuilder          *)
(*   "ownIndexes"   part_011:320-622, TableDefinitionWithConstraints that  *)
(*                  keeps its own indexes array                            *)
(* tbl is one table object: the list its constraints() callback returns    *)
(* (input), this._constraints, the indexes in the order they were added,   *)
(* the failure of the last constraints() call and the number of calls.     *)
(***************************************************************************)
Builders == {"defineTable", "builder", "ownIndexes"}

\* the fields the table declares, and the names a constraint may carry
DeclaredFields == {"name", "ref"}

FieldNames == DeclaredFields \cup {"ghost"}

\* what the constraint builders c.unique, c.relation, c.notNull, c.default
\* return
BuildConstraints ==
  UNION {{Unique(f), Relation(f, "users", "undef", "cascade"), NotNull(f),
          Default(f, "a")} : f \in FieldNames}

ConstraintLists ==
  UNION {[1..n -> BuildConstraints] : n \in 0..MaxConstraints}

\* Table(name, fields)
NewTable(b, cs) ==
  [builder |-> b, name |-> "posts", input |-> cs, constraints |-> <<>>,
   indexes |-> <<>>, error |-> NoBuildError, calls |-> 0]

\* `Constraint field '${field}' does not exist in table '${name}'.
\*  Available fields: ${fieldNames.join(', ')}`, and the store's refusal of
\* an index name the table already has
BuildError(kind, f, t, available) ==
  [kind |-> kind, field |-> f, table |-> t, available |-> available]

\* the first field of the list fields that the table does not declare
FirstUndeclared(fields) ==
  fields[CHOOSE k \in 1..Len(fields) :
           /\ fields[k] \notin DeclaredFields
           /\ \A j \in 1..(k - 1) : fields[j] \in DeclaredFields]

\* validateConstraints: the first constraint naming an undeclared field.
\* Only TableWithConstraintsBuilder has a case for index constraints.
ValidateConstraints(t, cs) ==
  LET badField(c) == /\ c.type \in {"unique", "notNull", "default", "relation"}
                     /\ c.field \notin DeclaredFields
      badIndex(c) == /\ t.builder = "builder"
                     /\ c.type = "index"
                     /\ \E k \in 1..Len(c.fields) :
                          c.fields[k] \notin DeclaredFields
      bad == {k \in 1..Len(cs) : badField(cs[k]) \/ badIndex(cs[k])}
      first == cs[CHOOSE k \in bad : \A j \in bad : k <= j]
  IN IF bad = {} THEN NoBuildError
     ELSE IF first.type = "index"
     THEN BuildError("indexFieldDoesNotExist", FirstUndeclared(first.fields),
                     t.name, DeclaredFields)
     ELSE BuildError("fieldDoesNotExist", first.field, t.name, DeclaredFields)

\* the index name addAutoIndexes derives from constraint c
AutoIndexName(b, c) ==
  IF b = "ownIndexes" THEN "by_" \o c.field
  ELSE IF c.type = "unique" THEN "sql_unique_" \o c.field \o "_idx"
  ELSE "sql_rel_" \o c.field \o "_idx"

HasIndex(t, nm) == \E k \in 1..Len(t.indexes) : t.indexes[k].name = nm

\* this.indexes.push({indexDescriptor: name, fields})
IndexPush(t, nm, fields) ==
  [t EXCEPT !.indexes = Append(@, [name |-> nm, fields |-> fields])]

\* what the store's TableDefinition.index does with a name the table
\* already has: it appends the index all the same, or it throws
DuplicateIndex == {"appended", "rejected"}

\* this.table.index(name, fields) of the store's table definition, which
\* changes that definition in place
DefineTableIndex(t, nm, fields, dup) ==
  IF HasIndex(t, nm) /\ dup = "rejected"
  THEN [t EXCEPT !.error = BuildError("duplicateIndex", fields[1], t.name, {})]
  ELSE IndexPush(t, nm, fields)

\* AddAutoIndex that derives an index for unique constraints only
AddAutoIndexUniqueOnly(t, c, dup) ==
  LET nm == AutoIndexName(t.builder, c)
  IN IF t.builder = "ownIndexes"
     THEN IF HasIndex(t, nm) \/ c.type # "unique" THEN t
          ELSE IndexPush(t, nm, <<c.field>>)
     ELSE IF c.type = "unique"
          THEN DefineTableIndex(t, nm, <<c.field>>, dup)
          ELSE t

\* one turn of the loop of addAutoIndexes
AddAutoIndex(t, c, dup) ==
  LET nm == AutoIndexName(t.builder, c)
  IN IF t.builder = "ownIndexes"
     THEN IF HasIndex(t, nm) THEN t
          ELSE IF c.type \in {"unique", "relation"}
          THEN IndexPush(t, nm, <<c.field>>)
          ELSE t
     ELSE IF c.type \in {"unique", "relation"}
          THEN DefineTableIndex(t, nm, <<c.field>>, dup)
          ELSE IF t.builder = "builder" /\ c.type = "index"
          THEN IF Len(c.fields) = 0
               THEN [t EXCEPT !.error =
                       BuildError("indexWithoutFields", "none", t.name, {})]
               ELSE DefineTableIndex(t, c.name, c.fields, dup)
          ELSE t

\* addAutoIndexes from the k-th constraint on
RECURSIVE AddAutoIndexesFrom(_, _, _)
AddAutoIndexesFrom(k, t, dup) ==
  IF k > Len(t.constraints) \/ t.error # NoBuildError THEN t
  ELSE AddAutoIndexesFrom(k + 1, AddAutoIndex(t, t.constraints[k], dup), dup)

AddAutoIndexes(t, dup) == AddAutoIndexesFrom(1, t, dup)

\* ConstraintsCall that derives the indexes before it validates the fields
ConstraintsCallIndexFirst(t, cs, dup) ==
  LET t1 == [t EXCEPT !.constraints = cs, !.calls = @ + 1,
                      !.error = NoBuildError]
      t2 == AddAutoIndexes(t1, dup)
      e == ValidateConstraints(t1, cs)
  IN IF e # NoBuildError THEN [t2 EXCEPT !.error = e] ELSE t2

\* constraints(constraintsFn): this._constraints = constraintsFn(builders);
\* this.validateConstraints(); return this.addAutoIndexes()
ConstraintsCall(t, cs, dup) ==
  LET t1 == [t EXCEPT !.constraints = cs, !.calls = @ + 1,
                      !.error = NoBuildError]
      e == ValidateConstraints(t1, cs)
  IN IF e # NoBuildError THEN [t1 EXCEPT !.error = e]
     ELSE AddAutoIndexes(t1, dup)

\* getRelations(): the relation constraints the table stores
GetRelations(t) ==
  LET rs == SelectSeq(t.constraints, LAMBDA c : c.type = "relation")
  IN [k \in 1..Len(rs) |->
        [field |-> rs[k].field, targetTable |-> rs[k].targetTable,
         onDelete |-> rs[k].onDelete]]

\* the schema author calls constraints() on the table
Constraints(dup) ==
  /\ tbl.builder # "none"
  /\ tbl.calls < MaxBuilds
  /\ tbl' = ConstraintsCall(tbl, tbl.input, dup)
  /\ UNCHANGED <<variant, schema, db, nextId, last, pending, sw>>

\* the schema author declares an index of their own, index(name, [g]),
\* under the name the builder derives for field f
DeclareIndex(f, g) ==
  /\ tbl.builder \in {"defineTable", "ownIndexes"}
  /\ tbl.calls = 0
  /\ Len(tbl.indexes) = 0
  /\ tbl' = IndexPush(tbl, AutoIndexName(tbl.builder, Unique(f)), <<g>>)
  /\ UNCHANGED <<variant, schema, db, nextId, last, pending, sw>>

InitBuild ==
  /\ variant = "runtime"
  /\ schema = "restrict"
  /\ db = [i \in Ids |-> NoRow]
  /\ nextId = 1
  /\ last = NoCall
  /\ sw = NewWatcher
  /\ pending = NoPending
  /\ tbl \in {NewTable(b, cs) : b \in Builders, cs \in ConstraintLists}

NextBuild ==
  \/ \E dup \in DuplicateIndex : Constraints(dup)
  \/ \E f, g \in DeclaredFields : DeclareIndex(f, g)

SpecBuild == InitBuild /\ [][NextBuild]_vars

\* constraint lists that hold explicit index constraints as well
IndexConstraintLists ==
  LET cs == {Unique("name"), Relation("ref", "users", "undef", "cascade"),
             Index(<<>>, "idx"), Index(<<"name">>, "idx"),
             Index(<<"ghost">>, "idx"), Index(<<"name", "ghost">>, "idx"),
             Index(<<"name", "ref">>, "idx")}
  IN UNION {[1..n -> cs] : n \in 0..MaxConstraints}

InitIndex ==
  /\ variant = "runtime"
  /\ schema = "restrict"
  /\ db = [i \in Ids |-> NoRow]
  /\ nextId = 1
  /\ last = NoCall
  /\ sw = NewWatcher
  /\ pending = NoPending
  /\ tbl \in {NewTable(b, cs) : b \in Builders, cs \in IndexConstraintLists}

SpecIndex == InitIndex /\ [][NextBuild]_vars

(***************************************************************************)
(* SchemaWatcher (src/unnamed/part_006)                                    *)
(***************************************************************************)
\* start(): this.watcher = watch(path, ...), with the change/add handlers
\* registered on it; a watcher that start() found in this.watcher is
\* neither closed nor unregistered
Start ==
  /\ sw.created < MaxStarts
  /\ sw' = [sw EXCEPT !.created = @ + 1,
                      !.watcher = sw.created + 1,
                      !.open = @ \cup {sw.created + 1},
                      !.running = TRUE,
                      !.op = "start"]
  /\ UNCHANGED <<variant, schema, db, nextId, last, pending, tbl>>

\* stop(): close this.watcher if there is one, clear this.debounceTimer if
\* there is one
Stop ==
  /\ sw' = [sw EXCEPT !.open = @ \ {sw.watcher},
                      !.watcher = 0,
                      !.armed = @ \ {sw.debounceTimer},
                      !.debounceTimer = 0,
                      !.running = FALSE,
                      !.op = "stop"]
  /\ UNCHANGED <<variant, schema, db, nextId, last, pending, tbl>>

\* debouncedGenerate(): clearTimeout(this.debounceTimer) if it is set, then
\* this.debounceTimer = setTimeout(...)
DebouncedGenerate(w) ==
  [w EXCEPT !.armed = (@ \ {w.debounceTimer}) \cup {w.timers + 1},
            !.debounceTimer = w.timers + 1,
            !.timers = @ + 1]

\* the change or add handler of the open chokidar watcher k runs
FsEvent(k) ==
  /\ k \in sw.open
  /\ sw.events < MaxEvents
  /\ sw' = [DebouncedGenerate(sw) EXCEPT !.events = @ + 1, !.op = "event"]
  /\ UNCHANGED <<variant, schema, db, nextId, last, pending, tbl>>

\* the armed timer t fires: generate() runs and emits generated or error;
\* this.debounceTimer keeps the handle of the timer that fired
TimerFires(t, outcome) ==
  /\ t \in sw.armed
  /\ sw' = [sw EXCEPT !.armed = @ \ {t},
                      !.generations = @ + 1,
                      !.op = "generate",
                      !.emitted = outcome]
  /\ UNCHANGED <<variant, schema, db, nextId, last, pending, tbl>>

NextWatcher ==
  \/ Start
  \/ Stop
  \/ \E k \in 1..MaxStarts : FsEvent(k)
  \/ \E t \in 1..MaxEvents : \E outcome \in {"generated", "error"} :
       TimerFires(t, outcome)

SpecWatcher ==
  InitWith({"runtime"}, {"restrict"}) /\ [][NextWatcher]_vars

(***************************************************************************)
(* The index names the enforcers pass to withIndex                         *)
(***************************************************************************)
\* the enforcer versions: "generated" is codegen.ts:159-284 ("generated1")
\* and codegen.ts:457-576 ("generated2"), which differ in these names only
EnforcerVersions == {"runtime", "generated1", "generated2", "result"}

\* the index of the uniqueness lookup on field f
UniqueLookupIndex(e, f) ==
  CASE e = "runtime"    -> f
    [] e = "generated1" -> "sql_unique_" \o f \o "_idx"
    [] e = "generated2" -> f
    [] e = "result"     -> "convex_sql_" \o f

\* the index of the inbound-relation lookup on field f on delete
InboundLookupIndex(e, f) ==
  CASE e = "runtime"    -> f \o "_idx"
    [] e = "generated1" -> "sql_rel_" \o f \o "_idx"
    [] e = "generated2" -> f \o "_idx"
    [] e = "result"     -> "convex_sql_" \o f

(***************************************************************************)
(* Vocabulary of the properties                                            *)
(***************************************************************************)
\* the relations of schema s whose targetTable is t
Inbound(s, t) ==
  {k \in 1..Len(AllRelations(s)) : AllRelations(s)[k].rel.targetTable = t}

\* the value a referencing row carries for the document p: its id, or its
\* targetField value
RefValue(d, rel, p) ==
  IF rel.targetField = "undef" THEN p ELSE d[p][rel.targetField]

\* the rows of r.src that reference the document p through relation r.rel
Referencing(d, r, p) ==
  {i \in Ids : d[i].table = r.src /\ d[i][r.rel.field] = RefValue(d, r.rel, p)}

\* the step is a wrapped delete of the existing document p
DeleteStep(p) ==
  /\ Exists(db, p)
  /\ last'.op = "delete"
  /\ last'.id = p

\* the step is a wrapped insert into t
InsertStep(t) ==
  /\ last'.op = "insert"
  /\ last'.table = t

\* the step is a wrapped update/replace of the existing document r
UpdateStep(r) ==
  /\ Exists(db, r)
  /\ last'.op = "update"
  /\ last'.id = r

\* C1: with Child.field -> Parent onDelete = cascade, a wrapped delete of a
\* parent with N referencing children succeeds and leaves the N children and
\* the parent absent; with N = 0 every other row is unchanged.
C1_CascadeDeletesChildrenAndParent ==
  [][\A p \in Ids : \A k \in Inbound(schema, db[p].table) :
       LET r == AllRelations(schema)[k]
           kids == Referencing(db, r, p)
       IN (DeleteStep(p) /\ r.rel.onDelete = "cascade")
          => /\ last'.err = NoErr
             /\ ~Exists(db', p)
             /\ \A c \in kids : ~Exists(db', c)
             /\ kids = {} => \A i \in Ids \ {p} : db'[i] = db[i]]_vars

\* C2: with C -> B and B -> A both cascade, a wrapped delete of a row a of A
\* removes every B row referencing a and every C row referencing one of
\* those B rows.
C2_CascadeIsTransitive ==
  [][\A a \in Ids : \A k \in Inbound(schema, db[a].table) :
       LET rb == AllRelations(schema)[k]
       IN (DeleteStep(a) /\ rb.rel.onDelete = "cascade")
          => \A b \in Referencing(db, rb, a) :
               /\ ~Exists(db', b)
               /\ \A j \in Inbound(schema, rb.src) :
                    LET rc == AllRelations(schema)[j]
                    IN rc.rel.onDelete = "cascade"
                       => \A c \in Referencing(db, rc, b) : ~Exists(db', c)]_vars

\* C3: with Child.field -> Parent onDelete = restrict and N >= 1 referencing
\* children, a wrapped delete of the parent fails with the violation that
\* names the child table and N, and the parent and the N children are
\* unchanged.
C3_RestrictBlocksDelete ==
  [][\A p \in Ids : \A k \in Inbound(schema, db[p].table) :
       LET r == AllRelations(schema)[k]
           kids == Referencing(db, r, p)
       IN (DeleteStep(p) /\ r.rel.onDelete = "restrict" /\ kids # {})
          => /\ last'.err = CannotDelete(r.src, Cardinality(kids))
             /\ db'[p] = db[p]
             /\ \A c \in kids : db'[c] = db[c]]_vars

\* a delete was refused because two rows reference the parent
C3_Witness ==
  /\ last.op = "delete"
  /\ last.err = CannotDelete("posts", 2)
  /\ Exists(db, last.id)

\* C4: with Child.parentId -> Parent onDelete = setNull, a wrapped delete of
\* a parent succeeds, removes the parent, keeps every former child, and
\* leaves each child with parentId absent/null and its other fields as they
\* were.
C4_SetNullKeepsChildren ==
  [][\A p \in Ids : \A k \in Inbound(schema, db[p].table) :
       LET r == AllRelations(schema)[k]
           kids == Referencing(db, r, p)
       IN (DeleteStep(p) /\ r.rel.onDelete = "setNull")
          => /\ last'.err = NoErr
             /\ ~Exists(db', p)
             /\ \A c \in kids :
                  /\ db'[c].table = db[c].table
                  /\ db'[c][r.rel.field] \in {"undef", "null"}
                  /\ \A f \in {"name", "ref"} \ {r.rel.field} :
                       db'[c][f] = db[c][f]]_vars

\* a parent with two children was deleted and both children are still there
C4_Witness ==
  /\ last.op = "delete"
  /\ last.err = NoErr
  /\ last.table = "users"
  /\ Len(last.log) = 3
  /\ \A k \in 1..2 : last.log[k].op = "patch" /\ Exists(db, last.log[k].id)

\* the unique constraints of table t
UniquesOf(s, t) == SelectSeq(ConstraintsOf(s, t), LAMBDA c : c.type = "unique")

\* some row of t other than those of skip holds v in field f
HeldBy(d, t, f, v, skip) ==
  \E i \in Ids \ skip : d[i].table = t /\ d[i][f] = v

\* C5: on a table with Unique on f, an insert with f = v made while a row
\* inserted earlier holds v fails with the unique violation naming table,
\* field and value and adds no row; an insert with a value no row holds
\* passes the unique check, and succeeds where that is the only constraint.
C5_UniqueInsert ==
  [][\A t \in TableSet(schema) : \A k \in 1..Len(UniquesOf(schema, t)) :
       LET f == UniquesOf(schema, t)[k].field
           v == last'.data[f]
       IN (InsertStep(t) /\ v # "undef")
          => /\ HeldBy(db, t, f, v, {})
                  => /\ last'.err = UniqueViolation(t, f, v)
                     /\ db' = db
                     /\ nextId' = nextId
             /\ ~HeldBy(db, t, f, v, {})
                  => /\ last'.err.kind # "unique"
                     /\ Len(ConstraintsOf(schema, t)) = 1
                          => /\ last'.err = NoErr
                             /\ db'[last'.id] = last'.data
                             /\ \A i \in Ids \ {last'.id} : db'[i] = db[i]]_vars

\* a second insert of a held value was refused while one of another value
\* had succeeded before
C5_Witness ==
  /\ last.op = "insert"
  /\ last.err = UniqueViolation("users", "name", "a")
  /\ \E i, j \in Ids : /\ db[i].table = "users" /\ db[i].name = "a"
                       /\ db[j].table = "users" /\ db[j].name = "b"

\* C6: an update/replace of row r that sets a Unique field to the value r
\* already holds never fails with a unique violation; one that sets it to a
\* value held by a different row of the table fails and leaves r unchanged.
C6_UpdateSelfExclusion ==
  [][\A r \in Ids : \A k \in 1..Len(UniquesOf(schema, db[r].table)) :
       LET t == db[r].table
           f == UniquesOf(schema, t)[k].field
           v == last'.data[f]
       IN (UpdateStep(r) /\ v # "undef")
          => /\ v = db[r][f] => last'.err.kind # "unique"
             /\ (v # db[r][f] /\ HeldBy(db, t, f, v, {r}))
                  => /\ last'.err = UniqueViolation(t, f, v)
                     /\ db'[r] = db[r]]_vars

\* C6 for every value but null
C6_UpdateSelfExclusionNonNull ==
  [][\A r \in Ids : \A k \in 1..Len(UniquesOf(schema, db[r].table)) :
       LET t == db[r].table
           f == UniquesOf(schema, t)[k].field
           v == last'.data[f]
       IN (UpdateStep(r) /\ v \notin {"undef", "null"})
          => /\ v = db[r][f] => last'.err.kind # "unique"
             /\ (v # db[r][f] /\ HeldBy(db, t, f, v, {r}))
                  => /\ last'.err = UniqueViolation(t, f, v)
                     /\ db'[r] = db[r]]_vars

\* the relation's value v identifies a row of the target table: by id, or
\* by equality on targetField
Identifies(d, rel, v) ==
  IF rel.targetField = "undef"
  THEN Exists(d, v) /\ d[v].table = rel.targetTable
  ELSE HeldBy(d, rel.targetTable, rel.targetField, v, {})

C8_ReferentialIntegrity ==
  \A i \in Ids : \A k \in 1..Len(RelationsOf(schema, db[i].table)) :
    LET rel == RelationsOf(schema, db[i].table)[k].rel
    IN ~Falsy(db[i][rel.field]) => Identifies(db, rel, db[i][rel.field])

\* C9: no table holds two distinct rows with the same present value in a
\* field that carries a Unique constraint.
C9_Uniqueness ==
  \A i, j \in Ids : \A k \in 1..Len(UniquesOf(schema, db[i].table)) :
    LET f == UniquesOf(schema, db[i].table)[k].field
    IN (i # j /\ db[i].table = db[j].table /\ db[i][f] = db[j][f])
       => Falsy(db[i][f])

\* a setNull delete has patched a row of a table whose other row holds a
\* reference, both in the unique field
C9_Witness ==
  /\ last.op = "delete"
  /\ last.err = NoErr
  /\ \E k \in 1..Len(last.log) : last.log[k].op = "patch"
  /\ \E i, j \in Ids : /\ i # j
                       /\ db[i].table = "posts" /\ db[j].table = "posts"
                       /\ Falsy(db[i].ref)

\* the writes of call c that target the requested row
OwnWrites(c) == {k \in 1..Len(c.log) : c.log[k].id = c.id}

\* the requested row is written at most once, as the last write of a call
\* whose validation or delete handling did not fail
WritesRequestedRowLast(c) ==
  /\ Cardinality(OwnWrites(c)) <= 1
  /\ OwnWrites(c) # {} => (OwnWrites(c) = {Len(c.log)} /\ c.err = NoErr)

\* C10: every wrapped operation writes the requested row only after its
\* validation or delete handling returned without failure, and at most
\* once; a failed validation of an insert or update/replace issues no write
\* and leaves the store unchanged.
C10_WriteOnlyAfterSuccess ==
  [][last'.op # "none"
     => /\ WritesRequestedRowLast(last')
        /\ (last'.op \in {"insert", "update"} /\ last'.err # NoErr)
             => (last'.log = <<>> /\ db' = db)]_vars

\* the document p is one of the rows that reference it
SelfReferencing(d, s, p) ==
  \E k \in Inbound(s, d[p].table) : p \in Referencing(d, AllRelations(s)[k], p)

\* C10 amended: as C10, for every call but the delete of a row that is one
\* of the rows referencing it.
C10_WriteOnlyAfterSuccessAmended ==
  [][(last'.op # "none"
      /\ ~(last'.op = "delete" /\ SelfReferencing(db, schema, last'.id)))
     => /\ WritesRequestedRowLast(last')
        /\ (last'.op \in {"insert", "update"} /\ last'.err # NoErr)
             => (last'.log = <<>> /\ db' = db)]_vars

\* a delete wrote a referencing row first and the requested row last
C10_Witness ==
  /\ last.op = "delete"
  /\ last.err = NoErr
  /\ Len(last.log) = 2
  /\ last.log[1].id # last.id
  /\ last.log[2] = [op |-> "delete", id |-> last.id]

\* the call c read the rows of relation r (a lookup on r's source table on
\* behalf of r's field)
ReadFor(c, r) ==
  \E j \in 1..Len(c.reads) :
    c.reads[j].table = r.src /\ c.reads[j].for = r.rel.field

\* C11: inbound relations are handled in declaration order without
\* rollback: a delete that meets a cascade relation with referencing rows
\* and, later in that order, a restrict relation with referencing rows
\* fails; the target row remains, the rows removed by the cascade stay
\* removed, and no relation declared after the restricting one is looked up
\* or written.
C11_DeclarationOrderNoRollback ==
  [][\A p \in Ids : \A k1, k2 \in Inbound(schema, db[p].table) :
       LET r1 == AllRelations(schema)[k1]
           r2 == AllRelations(schema)[k2]
       IN (/\ DeleteStep(p)
           /\ k1 < k2
           /\ r1.rel.onDelete = "cascade" /\ Referencing(db, r1, p) # {}
           /\ r2.rel.onDelete = "restrict" /\ Referencing(db, r2, p) # {})
          => /\ last'.err # NoErr
             /\ db'[p] = db[p]
             /\ \A c \in Referencing(db, r1, p) : ~Exists(db', c)
             /\ \A k3 \in Inbound(schema, db[p].table) :
                  k3 > k2
                  => /\ ~ReadFor(last', AllRelations(schema)[k3])
                     /\ \A c \in Ids :
                          db[c].table = AllRelations(schema)[k3].src
                          => db'[c] = db[c]]_vars

\* a delete removed a referencing post and was then refused because of a
\* referencing comment; the user is still there
C11_Witness ==
  /\ last.op = "delete"
  /\ last.table = "users"
  /\ last.err = CannotDelete("comments", 1)
  /\ Len(last.log) = 1
  /\ last.log[1].op = "delete"
  /\ ~Exists(db, last.log[1].id)
  /\ Exists(db, last.id)

\* C12: a relation whose onDelete is unset or setDefault behaves as
\* restrict: a wrapped delete of a row that has at least one referencing
\* row fails, and the target row and every referencing row are unchanged.
C12_UnsetAndSetDefaultRestrict ==
  [][\A p \in Ids : \A k \in Inbound(schema, db[p].table) :
       LET r == AllRelations(schema)[k]
           kids == Referencing(db, r, p)
       IN (DeleteStep(p) /\ r.rel.onDelete \in {"undef", "setDefault"}
           /\ kids # {})
          => /\ last'.err # NoErr
             /\ last'.log = <<>>
             /\ db'[p] = db[p]
             /\ \A c \in kids : db'[c] = db[c]]_vars

\* a delete of a user that two posts reference through a setDefault
\* relation was refused
C12_Witness ==
  /\ schema = "setDefault"
  /\ last.op = "delete"
  /\ last.err # NoErr
  /\ Exists(db, last.id)
  /\ Cardinality({i \in Ids : db[i].table = "posts" /\ db[i].ref = last.id}) = 2

\* C13: in the result-object wrapper, insert, replace and delete never
\* throw; each returns {data, error} with exactly one of the two non-null;
\* data is non-null only if the native write of the requested row was
\* performed; a non-null error means the requested row was not inserted,
\* replaced or deleted.
C13_ResultObjectContract ==
  [][(variant = "result" /\ last'.op # "none")
     => LET o == ResultObject(variant, last')
        IN /\ ~o.thrown
           /\ (o.data = "null") # (o.error = "null")
           /\ o.data # "null"
                => \E k \in 1..Len(last'.log) :
                     /\ last'.log[k].id = o.data
                     /\ last'.log[k].op =
                          (IF last'.op = "update" THEN "replace" ELSE last'.op)
           /\ o.error # "null"
                => /\ last'.op = "insert" => (db' = db /\ nextId' = nextId)
                   /\ \A r \in Ids :
                        /\ UpdateStep(r) => db'[r] = db[r]
                        /\ DeleteStep(r) => Exists(db', r)]_vars

\* C14: the check-then-act sequence of concurrent wrapped inserts is not
\* atomic.  The enforcer holds no lock and performs no re-check: a caller
\* whose validation has returned writes its row whatever the store holds by
\* then, also when another caller has meanwhile written a row with the same
\* value of a Unique field.
C14_CheckThenActNotAtomic ==
  [][\A p \in Procs :
       (pending[p].pc = "writing" /\ pending'[p].pc = "idle")
       => /\ last'.err = NoErr
          /\ last'.id = IdSeq[nextId]
          /\ db'[IdSeq[nextId]] = pending[p].data
          /\ \A i \in Ids \ {IdSeq[nextId]} : db'[i] = db[i]]_vars

\* two inserts carrying the same name both passed their uniqueness lookup
\* before either wrote, and two users now hold that name
C14_Witness ==
  /\ last.op = "insert"
  /\ last.err = NoErr
  /\ last.table = "users"
  /\ \E i \in Ids \ {last.id} :
       /\ db[i].table = "users"
       /\ db[i].name = last.data.name
       /\ db[i].name \in NameVals

\* the index names of table t
IndexNames(t) == {t.indexes[k].name : k \in 1..Len(t.indexes)}

\* the last constraints() call on t returned
Built(t) == t.calls > 0 /\ t.error = NoBuildError

\* C15: for every Unique and Relation constraint of a built table, the
\* index name each enforcer passes to the store for the uniqueness lookup
\* and for the inbound-relation lookup is the name of an index the Table
\* builder synthesized on that table.
C15_IndexNameCoupling ==
  Built(tbl)
  => \A k \in 1..Len(tbl.constraints) : \A e \in EnforcerVersions :
       LET c == tbl.constraints[k]
       IN /\ c.type = "unique"
               => UniqueLookupIndex(e, c.field) \in IndexNames(tbl)
          /\ c.type = "relation"
               => InboundLookupIndex(e, c.field) \in IndexNames(tbl)

\* C15 for the one pairing whose names agree: the first generated wrapper
\* with the two builders of Table.ts
C15_IndexNameCouplingGenerated1 ==
  (Built(tbl) /\ tbl.builder \in {"defineTable", "builder"})
  => \A k \in 1..Len(tbl.constraints) :
       LET c == tbl.constraints[k]
       IN /\ c.type = "unique"
               => UniqueLookupIndex("generated1", c.field) \in IndexNames(tbl)
          /\ c.type = "relation"
               => InboundLookupIndex("generated1", c.field) \in IndexNames(tbl)

\* the step is a constraints() call
ConstraintsStep == tbl'.calls = tbl.calls + 1

\* the fields of the list cs that a unique, relation, notNull or default
\* constraint names although the table does not declare them
Undeclared(cs) ==
  {cs[k].field : k \in {j \in 1..Len(cs) :
                          /\ cs[j].type \in {"unique", "relation", "notNull",
                                              "default"}
                          /\ cs[j].field \notin DeclaredFields}}

\* C16: a constraints() call whose list holds a unique, relation, notNull
\* or default constraint naming an undeclared field throws during that
\* call, before any auto-index is added, and the error lists the offending
\* field and the table's available fields.
C16_FieldValidationFailFast ==
  [][(ConstraintsStep /\ Undeclared(tbl.input) # {})
     => /\ tbl'.error.kind = "fieldDoesNotExist"
        /\ tbl'.error.field \in Undeclared(tbl.input)
        /\ tbl'.error.table = tbl.name
        /\ tbl'.error.available = DeclaredFields
        /\ tbl'.indexes = tbl.indexes]_vars

\* a list whose first constraint is a unique on a declared field and whose
\* second names an undeclared field was refused, and the table has no index
C16_Witness ==
  /\ tbl.calls = 1
  /\ Len(tbl.input) = 2
  /\ tbl.input[1] = Unique("name")
  /\ tbl.error = BuildError("fieldDoesNotExist", "ghost", tbl.name, DeclaredFields)
  /\ tbl.indexes = <<>>

\* C17: auto-index derivation is idempotent and never produces duplicate
\* index names: a constraint whose derived name the table already has is a
\* no-op (first wins, never an error), and a further constraints() call
\* with the same list leaves the index set as it was.
C17_AutoIndexIdempotent ==
  [][(ConstraintsStep /\ Undeclared(tbl.input) = {})
     => /\ tbl'.error = NoBuildError
        /\ Cardinality(IndexNames(tbl')) = Len(tbl'.indexes)
        /\ SubSeq(tbl'.indexes, 1, Len(tbl.indexes)) = tbl.indexes
        /\ Built(tbl) => tbl'.indexes = tbl.indexes]_vars

\* C17 for the builder that keeps its own indexes array
C17_AutoIndexIdempotentOwnIndexes ==
  [][(ConstraintsStep /\ Undeclared(tbl.input) = {}
      /\ tbl.builder = "ownIndexes")
     => /\ tbl'.error = NoBuildError
        /\ Cardinality(IndexNames(tbl')) = Len(tbl'.indexes)
        /\ SubSeq(tbl'.indexes, 1, Len(tbl.indexes)) = tbl.indexes
        /\ Built(tbl) => tbl'.indexes = tbl.indexes]_vars

\* the failure e is one the check of constraint c raises
FailsOn(e, c) ==
  IF c.type = "unique" THEN e.kind = "unique" /\ e.field = c.field
  ELSE IF c.type = "relation"
  THEN \/ e.kind = "foreignKey" /\ e.table = c.targetTable
       \/ e.kind = "invalidArgument"
  ELSE IF c.type = "notNull" THEN e.kind = "notNull" /\ e.field = c.field
  ELSE FALSE

\* the update of row r left the field of constraint c alone: it did not
\* fail on c and issued no store read on behalf of c
LeftAlone(r, c) ==
  /\ ~FailsOn(last'.err, c)
  /\ \A j \in 1..Len(last'.reads) : last'.reads[j].for # c.field

\* C18: update validation evaluates only the constraints whose field is a
\* key of the patch: an update whose patch does not contain a constrained
\* field never fails on that field's unique, relation or notNull constraint
\* and issues no store lookup for it.
C18_UpdateOnlyPatchedFields ==
  [][\A r \in Ids :
       \A k \in 1..Len(ConstraintsOf(schema, db[r].table)) :
         LET c == ConstraintsOf(schema, db[r].table)[k]
         IN (UpdateStep(r) /\ last'.data[c.field] = "undef")
            => LeftAlone(r, c)]_vars

\* the same for the wrappers that throw (runtime patch, generated replace)
C18_UpdateOnlyPatchedFieldsThrowing ==
  [][\A r \in Ids :
       \A k \in 1..Len(ConstraintsOf(schema, db[r].table)) :
         LET c == ConstraintsOf(schema, db[r].table)[k]
         IN (/\ variant # "result"
             /\ UpdateStep(r)
             /\ last'.data[c.field] = "undef")
            => LeftAlone(r, c)]_vars

\* an update of a post without the key ref went through and read nothing
C18_Witness ==
  /\ variant # "result"
  /\ last.op = "update"
  /\ last.table = "posts"
  /\ last.data.ref = "undef"
  /\ last.err = NoErr
  /\ last.reads = <<>>

\* the data of an insert into t violates constraint c in the store d
Violates(d, t, c, data) ==
  IF c.type = "unique"
  THEN data[c.field] # "undef" /\ HeldBy(d, t, c.field, data[c.field], {})
  ELSE IF c.type = "relation"
  THEN ~Falsy(data[c.field]) /\ ~Identifies(d, c, data[c.field])
  ELSE IF c.type = "notNull" THEN Falsy(data[c.field])
  ELSE FALSE

\* the store read rd is one the check of constraint c of table t issues
ReadOf(c, t, rd) ==
  IF c.type = "unique"
  THEN rd.op = "query" /\ rd.table = t /\ rd.field = c.field
  ELSE IF c.type = "relation"
  THEN rd.table = c.targetTable /\ rd.for = c.field /\ rd.op = "get"
  ELSE FALSE

\* the relation constraints of table t, in declaration order
RelationConstraintsOf(s, t) ==
  SelectSeq(ConstraintsOf(s, t), LAMBDA c : c.type = "relation")

\* the insert into t that the step performs reports the first constraint of
\* order that its data violates, having checked no constraint after it
ReportsFirstOf(order, t) ==
  \A k \in 1..Len(order) :
    (/\ Violates(db, t, order[k], last'.data)
     /\ \A j \in 1..(k - 1) : ~Violates(db, t, order[j], last'.data))
    => /\ FailsOn(last'.err, order[k])
       /\ db' = db
       /\ \A k2 \in (k + 1)..Len(order) :
            \A j \in 1..Len(last'.reads) :
              ~ReadOf(order[k2], t, last'.reads[j])

AbsentDefaults(s, t, data) ==
  {k \in 1..Len(ConstraintsOf(s, t)) :
     /\ ConstraintsOf(s, t)[k].type = "default"
     /\ data[ConstraintsOf(s, t)[k].field] = "undef"}

\* C20: on a wrapped insert, every default constraint whose field is absent
\* from the data is applied before the unique and relation checks run: the
\* stored row carries the default value, and that value is itself subject
\* to the uniqueness check (an insert whose default is already held fails
\* with the unique violation on the default value and adds no row).
C20_DefaultAppliedOnInsert ==
  [][\A t \in TableSet(schema) :
       \A k \in AbsentDefaults(schema, t, last'.data) :
         LET c == ConstraintsOf(schema, t)[k]
             unique == \E j \in 1..Len(ConstraintsOf(schema, t)) :
                         /\ ConstraintsOf(schema, t)[j].type = "unique"
                         /\ ConstraintsOf(schema, t)[j].field = c.field
         IN InsertStep(t)
            => /\ last'.err = NoErr => db'[last'.id][c.field] = c.value
               /\ (unique /\ HeldBy(db, t, c.field, c.value, {}))
                  => /\ last'.err = UniqueViolation(t, c.field, c.value)
                     /\ db' = db]_vars

\* the notNull constraints of table t
NotNullsOf(s, t) ==
  SelectSeq(ConstraintsOf(s, t), LAMBDA c : c.type = "notNull")

\* C21: a wrapped insert into a table with a NotNull constraint on field f
\* fails with the not-null violation naming f, and adds no row, whenever f
\* is absent from the data or null; the not-null check passes whenever f
\* holds any other value.
C21_NotNullOnInsert ==
  [][\A t \in TableSet(schema) : \A k \in 1..Len(NotNullsOf(schema, t)) :
       LET f == NotNullsOf(schema, t)[k].field
       IN InsertStep(t)
          => /\ last'.data[f] \in {"undef", "null"}
                => last'.err = NotNullViolation(f) /\ db' = db
             /\ last'.data[f] \notin {"undef", "null"}
                => last'.err.kind # "notNull"]_vars

\* the same for the runtime enforcer alone
C21_NotNullOnInsertRuntime ==
  [][\A t \in TableSet(schema) : \A k \in 1..Len(NotNullsOf(schema, t)) :
       LET f == NotNullsOf(schema, t)[k].field
       IN (variant = "runtime" /\ InsertStep(t))
          => /\ last'.data[f] \in {"undef", "null"}
                => last'.err = NotNullViolation(f) /\ db' = db
             /\ last'.data[f] \notin {"undef", "null"}
                => last'.err.kind # "notNull"]_vars

\* the runtime enforcer refused a post whose ref is null
C21_Witness ==
  /\ variant = "runtime"
  /\ last.op = "insert"
  /\ last.table = "posts"
  /\ last.data.ref = "null"
  /\ last.err = NotNullViolation("ref")

\* the step is a wrapped insert into t or a wrapped update/replace of a row
\* of t
WriteStep(t) ==
  \/ InsertStep(t)
  \/ \E r \in Ids : UpdateStep(r) /\ db[r].table = t

\* the call c neither failed on the relation constraint rel nor looked its
\* target table up
RelationSkipped(c, rel) ==
  /\ c.err.kind \notin {"foreignKey", "invalidArgument"}
  /\ \A j \in 1..Len(c.reads) :
       ~(c.reads[j].table = rel.targetTable /\ c.reads[j].for = rel.field)

\* C22: a Relation constraint is checked on insert or update only when its
\* field is present and non-null in the data: a write whose relation field
\* is absent or null never fails with a foreign-key violation and triggers
\* no lookup of the target table.
C22_RelationSkippedWhenAbsent ==
  [][\A t \in TableSet(schema) :
       \A k \in 1..Len(RelationConstraintsOf(schema, t)) :
         LET rel == RelationConstraintsOf(schema, t)[k]
         IN (WriteStep(t) /\ Falsy(last'.data[rel.field]))
            => RelationSkipped(last', rel)]_vars

\* the same for the wrappers that throw
C22_RelationSkippedWhenAbsentThrowing ==
  [][\A t \in TableSet(schema) :
       \A k \in 1..Len(RelationConstraintsOf(schema, t)) :
         LET rel == RelationConstraintsOf(schema, t)[k]
         IN (/\ variant # "result"
             /\ WriteStep(t)
             /\ Falsy(last'.data[rel.field]))
            => RelationSkipped(last', rel)]_vars

\* a post was inserted with ref null by a wrapper that throws
C22_Witness ==
  /\ variant # "result"
  /\ last.op = "insert"
  /\ last.table = "posts"
  /\ last.data.ref = "null"
  /\ last.err = NoErr
  /\ last.reads = <<>>

\* some relation declared on table src targets table t
Targets(s, src, t) ==
  \E k \in Inbound(s, t) : AllRelations(s)[k].src = src

\* the delete of p that the step performs acts only on relations whose
\* targetTable is p's table
OnlyInboundActs(p) ==
  /\ \A c \in Ids \ {p} :
       db'[c] # db[c] => Targets(schema, db[c].table, db[p].table)
  /\ last'.err.kind = "cannotDelete"
     => Targets(schema, last'.err.table, db[p].table)

\* C23: delete handling for a row of table T acts only on relations whose
\* targetTable is T: rows of a table whose relation targets a different
\* table are never deleted or patched by the call and never cause it to
\* fail, also when that relation declares a targetField.
C23_DeleteActsOnInboundOnly ==
  [][\A p \in Ids : DeleteStep(p) => OnlyInboundActs(p)]_vars

\* the same for relations that reference their target by id
C23_DeleteActsOnInboundOnlyById ==
  [][\A p \in Ids :
       (DeleteStep(p) /\ schema \notin {"byField", "byFieldCascade"})
       => OnlyInboundActs(p)]_vars

\* a post that references a user was deleted: posts is the source of the
\* only relation, users its target
C23_Witness ==
  /\ schema = "restrict"
  /\ last.op = "delete"
  /\ last.table = "posts"
  /\ last.err = NoErr
  /\ \E i \in Ids : db[i].table = "users"

\* the index constraints of the list cs that have no field, or a field the
\* table does not declare
BadIndexes(cs) ==
  {k \in 1..Len(cs) :
     /\ cs[k].type = "index"
     /\ \/ Len(cs[k].fields) = 0
        \/ \E j \in 1..Len(cs[k].fields) : cs[k].fields[j] \notin DeclaredFields}

\* C24: explicit index constraints fail fast at build time: a constraints()
\* call that returns an index constraint with an empty field list, or with
\* any field not declared on the table, throws, and in that case no index of
\* that call (auto or explicit) has been added to the table.
C24_IndexConstraintFailFast ==
  [][(/\ tbl.builder = "builder"
      /\ ConstraintsStep
      /\ BadIndexes(tbl.input) # {})
     => /\ tbl'.error # NoBuildError
        /\ tbl'.indexes = tbl.indexes]_vars

\* the same for index constraints that have fields, one of them undeclared
C24_IndexFieldFailFast ==
  [][(/\ tbl.builder = "builder"
      /\ ConstraintsStep
      /\ \E k \in BadIndexes(tbl.input) : Len(tbl.input[k].fields) > 0)
     => /\ tbl'.error.kind \in {"indexFieldDoesNotExist", "fieldDoesNotExist"}
        /\ tbl'.indexes = tbl.indexes]_vars

\* a list of a unique constraint and an index over an undeclared field was
\* refused with no index added
C24_Witness ==
  /\ tbl.builder = "builder"
  /\ tbl.calls = 1
  /\ tbl.input = <<Unique("name"), Index(<<"name", "ghost">>, "idx")>>
  /\ tbl.error = BuildError("indexFieldDoesNotExist", "ghost", tbl.name,
                            DeclaredFields)
  /\ tbl.indexes = <<>>

\* the delete of p that the step performs left p to the wrapper: no write
\* before the last one targets p, a call that succeeded ends with the one
\* delete of p, and a call that failed leaves p in the store
TargetLeftToWrapper(p) ==
  /\ \A k \in 1..(Len(last'.log) - 1) : last'.log[k].id # p
  /\ last'.err = NoErr
     => /\ Len(last'.log) >= 1
        /\ last'.log[Len(last'.log)] = [op |-> "delete", id |-> p]
        /\ ~Exists(db', p)
  /\ last'.err # NoErr => db'[p] = db[p]

\* C25: the delete handler never removes the row being deleted: for every
\* store state, including one where the target row references itself
\* through a cascade relation, handleDelete issues no delete or patch for
\* the target id, and the wrapper deletes the target exactly once, after the
\* handler has returned without failure.
C25_HandlerNeverRemovesTarget ==
  [][\A p \in Ids : DeleteStep(p) => TargetLeftToWrapper(p)]_vars

\* the same for target rows that are not among the rows referencing them
C25_HandlerNeverRemovesTargetOther ==
  [][\A p \in Ids :
       (DeleteStep(p) /\ ~SelfReferencing(db, schema, p))
       => TargetLeftToWrapper(p)]_vars

\* a comment was deleted by the wrapper alone, the handler having written
\* nothing, while another row remains in the store
C25_Witness ==
  /\ schema = "selfRef"
  /\ last.op = "delete"
  /\ last.err = NoErr
  /\ last.log = <<[op |-> "delete", id |-> last.id]>>
  /\ \E i \in Ids : Exists(db, i)

\* the unique and relation constraints the table t stores
IndexedConstraints(t) ==
  {t.constraints[k] : k \in {j \in 1..Len(t.constraints) :
                               t.constraints[j].type \in {"unique", "relation"}}}

\* C26: after constraints() returns, for every Unique or Relation
\* constraint on field f the table's index list contains an index carrying
\* the derived auto-index name whose field list is exactly [f], also when
\* the builder already held an explicitly declared index of that same name
\* before constraints() was called.
C26_AutoIndexOverConstraintField ==
  [][(ConstraintsStep /\ Built(tbl'))
     => \A c \in IndexedConstraints(tbl') :
          \E k \in 1..Len(tbl'.indexes) :
            /\ tbl'.indexes[k].name = AutoIndexName(tbl.builder, c)
            /\ tbl'.indexes[k].fields = <<c.field>>]_vars

\* C26 as the builders have it: after constraints() returns, for every
\* Unique or Relation constraint on field f the index list contains an
\* index carrying the derived name; its field list is exactly [f] unless
\* the table held an index of that name before the call, and then that
\* index is still in the list as it was.
C26_AutoIndexNamePresent ==
  [][(ConstraintsStep /\ Built(tbl'))
     => \A c \in IndexedConstraints(tbl') :
          \E k \in 1..Len(tbl'.indexes) :
            /\ tbl'.indexes[k].name = AutoIndexName(tbl.builder, c)
            /\ \/ tbl'.indexes[k].fields = <<c.field>>
               \/ /\ k <= Len(tbl.indexes)
                  /\ tbl'.indexes[k] = tbl.indexes[k]]_vars

\* the builder that keeps its own indexes held by_name over [ref] when
\* constraints() was called with a unique constraint on name: the call
\* returned and by_name is still the declared index
C26_Witness ==
  /\ tbl.builder = "ownIndexes"
  /\ Built(tbl)
  /\ tbl.calls = 1
  /\ tbl.constraints = <<Unique("name")>>
  /\ tbl.indexes = <<[name |-> "by_name", fields |-> <<"ref">>]>>

\* the rows that directly reference the document p through a relation
\* whose targetTable is p's table
DirectRefs(p) ==
  UNION {Referencing(db, AllRelations(schema)[k], p) :
           k \in Inbound(schema, db[p].table)}

\* the writes the delete handler of call c issued: every write of the call
\* but the wrapper's own delete, which follows a handler that did not fail
HandlerLog(c) ==
  IF c.err = NoErr \/ c.err.kind = "nonexistent"
  THEN SubSeq(c.log, 1, Len(c.log) - 1)
  ELSE c.log

\* C27: a wrapped delete terminates for every relation graph and store
\* state, cyclic and self-referencing relations included: the handler
\* visits each inbound relation once and issues at most one store delete or
\* patch per row that directly references the target, so the number of
\* store operations is bounded by the number of relations plus the number
\* of directly referencing rows (the wrapper's own delete of the target
\* not counted).
C27_DeleteBounded ==
  [][\A p \in Ids :
       DeleteStep(p)
       => LET h == HandlerLog(last')
          IN /\ \A k \in 1..Len(h) : h[k].id \in DirectRefs(p)
             /\ \A j, k \in 1..Len(h) : h[j].id = h[k].id => j = k
             /\ \A k \in Inbound(schema, db[p].table) :
                  Cardinality({j \in 1..Len(last'.reads) :
                      /\ last'.reads[j].table = AllRelations(schema)[k].src
                      /\ last'.reads[j].for = AllRelations(schema)[k].rel.field})
                  <= 1
             /\ Len(last'.reads) <= Len(AllRelations(schema))
             /\ Len(last'.log) + Len(last'.reads)
                  <= Len(AllRelations(schema)) + Cardinality(DirectRefs(p)) + 1]_vars

\* the pairs of an inbound relation and a row that references the document
\* p through it
RefPairs(p) ==
  {kc \in Inbound(schema, db[p].table) \X Ids :
     kc[2] \in Referencing(db, AllRelations(schema)[kc[1]], p)}

\* C27 as the handler has it: a wrapped delete terminates for every
\* relation graph and store state, cyclic and self-referencing relations
\* included: the handler looks each inbound relation up at most once and
\* issues at most one store delete or patch per inbound relation and row
\* referencing the target through it (a row that references the target
\* through two relations may be written once for each) and none for any
\* other row, so the number of store operations is bounded by the number of
\* relations plus the number of such pairs, plus the wrapper's own delete.
C27_DeleteBoundedPerRelation ==
  [][(last'.op = "delete" /\ DeleteStep(last'.id))
       => LET h == HandlerLog(last')
              p == last'.id
          IN /\ \A k \in 1..Len(h) : h[k].id \in DirectRefs(p)
             /\ \A c \in Ids :
                  Cardinality({k \in 1..Len(h) : h[k].id = c})
                  <= Cardinality({kc \in RefPairs(p) : kc[2] = c})
             /\ \A k \in Inbound(schema, db[p].table) :
                  Cardinality({j \in 1..Len(last'.reads) :
                      /\ last'.reads[j].table = AllRelations(schema)[k].src
                      /\ last'.reads[j].for = AllRelations(schema)[k].rel.field})
                  <= 1
             /\ Len(last'.reads) <= Len(AllRelations(schema))
             /\ Len(last'.log) + Len(last'.reads)
                  <= Len(AllRelations(schema)) + Cardinality(RefPairs(p)) + 1]_vars

\* in the cyclic schema a delete removed one referencing row of the other
\* table and then the requested row, and stopped there
C27_WitnessCycle ==
  /\ schema = "cycle"
  /\ last.op = "delete"
  /\ last.err = NoErr
  /\ Len(last.log) = 2
  /\ last.log[1].id # last.id
  /\ last.log[2] = [op |-> "delete", id |-> last.id]
  /\ Len(last.reads) = 1

\* a delete of a user patched and then deleted the one post that referenced
\* the user through both of its relations, and then deleted the user
C27_Witness ==
  /\ schema = "twoRefs"
  /\ last.op = "delete"
  /\ last.table = "users"
  /\ last.err = NoErr
  /\ Len(last.log) = 3
  /\ last.log[1].op = "patch"
  /\ last.log[2] = [op |-> "delete", id |-> last.log[1].id]
  /\ last.log[3] = [op |-> "delete", id |-> last.id]
  /\ Len(last.reads) = 2

\* C28: a wrapped update/replace of row r writes only r: no other row of
\* any table is patched or deleted by the call, whatever onUpdate action
\* (cascade, restrict, setNull, setDefault) the relations targeting r's
\* table declare, and no update is ever rejected because of onUpdate: an
\* update that fails fails on one of the constraints of r's own table.
C28_UpdateWritesOnlyRow ==
  [][\A r \in Ids :
       UpdateStep(r)
       => /\ \A c \in Ids \ {r} : db'[c] = db[c]
          /\ \A k \in 1..Len(last'.log) : last'.log[k].id = r
          /\ last'.err # NoErr
             => \E k \in 1..Len(ConstraintsOf(schema, db[r].table)) :
                  FailsOn(last'.err, ConstraintsOf(schema, db[r].table)[k])]_vars

\* a user that a comment references through a relation with onUpdate
\* restrict was renamed
C28_Witness ==
  /\ schema = "onUpdateA"
  /\ last.op = "update"
  /\ last.table = "users"
  /\ last.err = NoErr
  /\ Len(last.log) = 1
  /\ db[last.id].name = last.data.name
  /\ \E i \in Ids : db[i].table = "comments" /\ db[i].ref = last.id

\* C29: a constraints() call that throws on field-reference validation
\* leaves the table builder exactly as it was before the call: both its
\* stored constraint list and its index list are unchanged, so the rejected
\* constraints are not visible through getRelations().
C29_FailedCallLeavesBuilder ==
  [][(ConstraintsStep /\ tbl'.error.kind = "fieldDoesNotExist")
     => /\ tbl'.constraints = tbl.constraints
        /\ tbl'.indexes = tbl.indexes
        /\ GetRelations(tbl') = GetRelations(tbl)]_vars

\* the step runs generate()
GenerateStep == sw'.generations = sw.generations + 1

\* the step is a change or add event
EventStep == sw'.events = sw.events + 1

\* at most one debounce timer is pending; each event cancels the pending
\* timer and arms a new one; a timer that fires is the one armed by the
\* last event and leaves none pending, so a burst of events triggers one
\* generation, after its last event; stop() leaves no timer pending
Debounced ==
  /\ Cardinality(sw'.armed) <= 1
  /\ EventStep => (sw'.armed = {sw'.debounceTimer}
                   /\ sw'.debounceTimer \notin sw.armed)
  /\ GenerateStep => (sw.armed = {sw.debounceTimer} /\ sw'.armed = {})
  /\ sw'.op = "stop" => (sw'.armed = {} /\ sw'.debounceTimer = 0)

\* C30: SchemaWatcher debouncing: at any time at most one debounce timer is
\* pending; each change or add event cancels the pending timer and arms a
\* new one, so a burst of events in which every event arrives before the
\* previous timer fires triggers exactly one generation, after the last
\* event; and after stop() no timer is pending, so no generation starts
\* until start() is called again.
C30_WatcherDebounce ==
  [][/\ Debounced
     /\ GenerateStep => sw.running]_vars

\* the same for a SchemaWatcher whose start() is called only when it holds
\* no open chokidar watcher
C30_WatcherDebounceSingleStart ==
  [][/\ Debounced
     /\ (GenerateStep /\ sw.open \subseteq {sw.watcher}) => sw.running]_vars

\* two events arrived before a timer fired and one generation ran after
\* them
C30_Witness ==
  /\ sw.created = 1
  /\ sw.events = 2
  /\ sw.timers = 2
  /\ sw.generations = 1
  /\ sw.op = "generate"
  /\ sw.armed = {}

====
